---- MODULE Spec2Model ----
(***************************************************************************)
(* Model of pdf_ocr: the path resolver, the single-file processor, the     *)
(* batch orchestrator (processor.py), the classifier (analyzer.py), the    *)
(* programmatic entry point ocr_file (__init__.py) and the command-line    *)
(* entry point main (cli.py).                                              *)
(*                                                                         *)
(* A path is a record [parent, stem, ext]: parent is the sequence of       *)
(* directory names, stem the sequence of characters of the file name       *)
(* before the extension, ext the extension.  Suffixes are sequences of     *)
(* characters without a path separator or a dot, so that the file name     *)
(* stem+suffix+ext parses back into (stem \o suffix, ext).                 *)
(*                                                                         *)
(* The filesystem fs is a function from the existing paths to a tag for    *)
(* the content of the file: "scan" (image-only PDF), "text" (PDF with a    *)
(* text layer), "bad" (unreadable), "ocr" (written by the OCR pipeline),   *)
(* "dir" (a directory that carries a file-like name), "special" (neither  *)
(* a regular file nor a directory).                                        *)
(***************************************************************************)
EXTENDS Integers, Sequences, FiniteSets, TLC

VARIABLES fs, fs0, written, log, pc, args, pdf_list, progress_callback, i,
          results, processed, skipped, failed, cbLog, run, prev, ret

vars == <<fs, fs0, written, log, pc, args, pdf_list, progress_callback, i,
          results, processed, skipped, failed, cbLog, run, prev, ret>>

(* ------------------------------ bounds -------------------------------- *)
MaxStem == 2
MaxSuffix == 1
MaxFiles == 2

Chars == {"a"}
OutputChars == {"a", "b"}

(* ----------------------------- data model ----------------------------- *)
None == "None"
NoPath == [parent |-> <<>>, stem |-> <<>>, ext |-> ""]
NoRet == [none |-> TRUE]

Stems == UNION {[1..n -> Chars] : n \in 1..MaxStem}
Suffixes == UNION {[1..n -> Chars] : n \in 0..MaxSuffix}
DefaultSuffix == <<"_", "o", "c", "r">>

MkPath(parent, stem, ext) == [parent |-> parent, stem |-> stem, ext |-> ext]

ProcessResult(input_path, output_path, success, skip, error) ==
    [input_path |-> input_path, output_path |-> output_path,
     success |-> success, skipped |-> skip, error |-> error]

BatchResult(p, s, f, rs) ==
    [processed |-> p, skipped |-> s, failed |-> f, results |-> rs]

Exists(fsys, p) == p \in DOMAIN fsys

Range(s) == {s[k] : k \in 1..Len(s)}

(* ---------------------------- path resolver --------------------------- *)
get_output_path(input_path, sfx) ==
    MkPath(input_path.parent, input_path.stem \o sfx, input_path.ext)

(* ----------------------------- OCR pipeline --------------------------- *)
(* ocrmypdf.ocr(input, output): either produces the document at the       *)
(* output path or raises; it cannot succeed on a missing input or on a    *)
(* directory.                                                             *)
PipelineOutcomes(fsys, input_path, output_path) ==
    IF Exists(fsys, input_path) /\ fsys[input_path] \notin {"dir", "special", "bad"}
       /\ (Exists(fsys, output_path) => fsys[output_path] # "dir")
    THEN {"ok", "raise"}
    ELSE {"raise"}

WriteFile(fsys, p, tag) ==
    [q \in DOMAIN fsys \cup {p} |-> IF q = p THEN tag ELSE fsys[q]]

(* -------------------------- single-file processor --------------------- *)
(* The value is the ProcessResult, the filesystem after the call and      *)
(* whether the pipeline was invoked.                                      *)
process_pdf_no_skip(fsys, input_path, sfx, force, outcome) ==
    LET output_path == get_output_path(input_path, sfx) IN
    IF outcome = "ok"
    THEN [result |-> ProcessResult(input_path, output_path, TRUE, FALSE, None),
          fs |-> WriteFile(fsys, output_path, "ocr"),
          invoked |-> TRUE, target |-> output_path,
          outcome |-> "ok", wrote |-> {output_path}]
    ELSE [result |-> ProcessResult(input_path, NoPath, FALSE, FALSE,
                                   "OcrPipelineError"),
          fs |-> fsys, invoked |-> TRUE, target |-> output_path,
          outcome |-> "raise", wrote |-> {}]

process_pdf_skip_ignores_force(fsys, input_path, sfx, force, outcome) ==
    LET output_path == get_output_path(input_path, sfx) IN
    IF Exists(fsys, output_path)
    THEN [result |-> ProcessResult(input_path, output_path, TRUE, TRUE, None),
          fs |-> fsys, invoked |-> FALSE, target |-> NoPath,
          outcome |-> "none", wrote |-> {}]
    ELSE IF outcome = "ok"
    THEN [result |-> ProcessResult(input_path, output_path, TRUE, FALSE, None),
          fs |-> WriteFile(fsys, output_path, "ocr"),
          invoked |-> TRUE, target |-> output_path,
          outcome |-> "ok", wrote |-> {output_path}]
    ELSE [result |-> ProcessResult(input_path, NoPath, FALSE, FALSE,
                                   "OcrPipelineError"),
          fs |-> fsys, invoked |-> TRUE, target |-> output_path,
          outcome |-> "raise", wrote |-> {}]

process_pdf_failure_keeps_output(fsys, input_path, sfx, force, outcome) ==
    LET output_path == get_output_path(input_path, sfx) IN
    IF Exists(fsys, output_path) /\ ~force
    THEN [result |-> ProcessResult(input_path, output_path, TRUE, TRUE, None),
          fs |-> fsys, invoked |-> FALSE, target |-> NoPath,
          outcome |-> "none", wrote |-> {}]
    ELSE IF outcome = "ok"
    THEN [result |-> ProcessResult(input_path, output_path, TRUE, FALSE, None),
          fs |-> WriteFile(fsys, output_path, "ocr"),
          invoked |-> TRUE, target |-> output_path,
          outcome |-> "ok", wrote |-> {output_path}]
    ELSE [result |-> ProcessResult(input_path, output_path, FALSE, FALSE,
                                   "OcrPipelineError"),
          fs |-> fsys, invoked |-> TRUE, target |-> output_path,
          outcome |-> "raise", wrote |-> {}]

process_pdf(fsys, input_path, sfx, force, outcome) ==
    LET output_path == get_output_path(input_path, sfx) IN
    IF Exists(fsys, output_path) /\ ~force
    THEN [result |-> ProcessResult(input_path, output_path, TRUE, TRUE, None),
          fs |-> fsys, invoked |-> FALSE, target |-> NoPath,
          outcome |-> "none", wrote |-> {}]
    ELSE IF outcome = "ok"
    THEN [result |-> ProcessResult(input_path, output_path, TRUE, FALSE, None),
          fs |-> WriteFile(fsys, output_path, "ocr"),
          invoked |-> TRUE, target |-> output_path,
          outcome |-> "ok", wrote |-> {output_path}]
    ELSE [result |-> ProcessResult(input_path, NoPath, FALSE, FALSE,
                                   "OcrPipelineError"),
          fs |-> fsys, invoked |-> TRUE, target |-> output_path,
          outcome |-> "raise", wrote |-> {}]

(* History of the calls of process_pdf: which run and position, whether   *)
(* the output existed when the call started, whether the pipeline was     *)
(* invoked, on which target and with which outcome.                       *)
LogEntry(fsys, input_path, sfx, r) ==
    [run |-> run, pos |-> i + 1, input |-> input_path,
     existed |-> Exists(fsys, get_output_path(input_path, sfx)),
     invoked |-> r.invoked, target |-> r.target, outcome |-> r.outcome]

(* --------------------------- batch orchestrator ----------------------- *)
Tally_no_elif(counts, result) ==
    IF result.skipped
    THEN [counts EXCEPT !.skipped = @ + 1, !.processed = @ + 1]
    ELSE IF result.success
    THEN [counts EXCEPT !.processed = @ + 1]
    ELSE [counts EXCEPT !.failed = @ + 1]

Tally(counts, result) ==
    IF result.skipped
    THEN [counts EXCEPT !.skipped = @ + 1]
    ELSE IF result.success
    THEN [counts EXCEPT !.processed = @ + 1]
    ELSE [counts EXCEPT !.failed = @ + 1]

CallbackArgs_zero_based(idx, list) == <<idx, Len(list), list[idx + 1]>>

CallbackArgs(idx, list) == <<idx + 1, Len(list), list[idx + 1]>>

NextIndex_break_on_failure(idx, list, result) ==
    IF result.success THEN idx + 1 ELSE Len(list)

NextIndex(idx, list, result) == idx + 1

fsVars == <<fs, written, log>>
loopVars == <<i, results, processed, skipped, failed>>
callVars == <<args, pdf_list, progress_callback, run, prev, fs0>>

NoCallback ==
    /\ pc = "loop" /\ i < Len(pdf_list)
    /\ progress_callback = "None"
    /\ pc' = "process"
    /\ UNCHANGED <<fsVars, loopVars, callVars, cbLog, ret>>

CallbackReturns ==
    /\ pc = "loop" /\ i < Len(pdf_list)
    /\ progress_callback # "None"
    /\ cbLog' = Append(cbLog, CallbackArgs(i, pdf_list))
    /\ pc' = "process"
    /\ UNCHANGED <<fsVars, loopVars, callVars, ret>>

CallbackRaises ==
    /\ pc = "loop" /\ i < Len(pdf_list)
    /\ progress_callback = "cb"
    /\ cbLog' = Append(cbLog, CallbackArgs(i, pdf_list))
    /\ pc' = "raised"
    /\ UNCHANGED <<fsVars, loopVars, callVars, ret>>

ProcessFile ==
    /\ pc = "process"
    /\ LET pdf_path == pdf_list[i + 1]
           output_path == get_output_path(pdf_path, args.suffix)
       IN \E outcome \in PipelineOutcomes(fs, pdf_path, output_path) :
          LET r == process_pdf(fs, pdf_path, args.suffix, args.force, outcome)
              c == Tally([processed |-> processed, skipped |-> skipped,
                          failed |-> failed], r.result)
          IN /\ fs' = r.fs
             /\ written' = written \cup r.wrote
             /\ log' = Append(log, LogEntry(fs, pdf_path, args.suffix, r))
             /\ results' = Append(results, r.result)
             /\ processed' = c.processed
             /\ skipped' = c.skipped
             /\ failed' = c.failed
             /\ i' = NextIndex(i, pdf_list, r.result)
    /\ pc' = "loop"
    /\ UNCHANGED <<callVars, cbLog, ret>>

BatchReturn ==
    /\ pc = "loop" /\ i >= Len(pdf_list)
    /\ ret' = BatchResult(processed, skipped, failed, results)
    /\ pc' = "returned"
    /\ UNCHANGED <<fsVars, loopVars, callVars, cbLog>>

(* The caller runs process_batch a second time with the same arguments.   *)
Rerun ==
    /\ pc = "returned" /\ run = 1
    /\ run' = 2
    /\ prev' = ret
    /\ i' = 0 /\ results' = <<>>
    /\ processed' = 0 /\ skipped' = 0 /\ failed' = 0
    /\ cbLog' = <<>>
    /\ ret' = NoRet
    /\ pc' = "loop"
    /\ UNCHANGED <<fsVars, args, pdf_list, progress_callback, fs0>>

BatchInputs == {MkPath(<<"d1">>, s, ".pdf") : s \in Stems}
BatchLists == UNION {[1..n -> BatchInputs] : n \in 0..MaxFiles}

Relevant(list, sfx) ==
    Range(list) \cup {get_output_path(p, sfx) : p \in Range(list)}

InitBatch ==
    /\ pdf_list \in BatchLists
    /\ args \in [suffix : Suffixes, force : BOOLEAN]
    /\ progress_callback \in {"None", "cb"}
    /\ \E present \in SUBSET Relevant(pdf_list, args.suffix) :
          fs = [p \in present |-> "scan"]
    /\ fs0 = fs
    /\ written = {} /\ log = <<>>
    /\ pc = "loop" /\ i = 0 /\ results = <<>>
    /\ processed = 0 /\ skipped = 0 /\ failed = 0
    /\ cbLog = <<>> /\ run = 1 /\ prev = NoRet /\ ret = NoRet

NextBatch ==
    \/ NoCallback
    \/ CallbackReturns
    \/ CallbackRaises
    \/ ProcessFile
    \/ BatchReturn
    \/ Rerun

SpecBatch == InitBatch /\ [][NextBatch]_vars


(* ------------------------------- ocr_file ----------------------------- *)
(* str.replace(old, ""): every non-overlapping occurrence of old, found   *)
(* from the left, is removed.                                             *)
RECURSIVE Replace(_, _)
Replace(s, old) ==
    IF Len(s) < Len(old) THEN s
    ELSE IF SubSeq(s, 1, Len(old)) = old
    THEN Replace(SubSeq(s, Len(old) + 1, Len(s)), old)
    ELSE <<Head(s)>> \o Replace(Tail(s), old)

ocr_suffix(input_path, output_path) ==
    IF output_path # NoPath
    THEN LET sfx == Replace(output_path.stem, input_path.stem)
         IN IF sfx = <<>> THEN DefaultSuffix ELSE sfx
    ELSE DefaultSuffix

NeedsRename(input_path, output_path, result) ==
    /\ output_path # NoPath /\ result.success /\ ~result.skipped
    /\ get_output_path(input_path, ocr_suffix(input_path, output_path))
          # output_path

(* Path.rename(target): replaces an existing target file where the        *)
(* platform allows it, and raises otherwise.                              *)
RenameOutcomes(fsys, target) ==
    IF Exists(fsys, target) /\ fsys[target] = "dir"
    THEN {"raise"} ELSE {"ok", "raise"}

Rename(fsys, source, target) ==
    [q \in (DOMAIN fsys \ {source}) \cup {target} |->
        IF q = target THEN fsys[source] ELSE fsys[q]]

OcrFileProcess ==
    /\ pc = "ocr_file"
    /\ LET sfx == ocr_suffix(args.input_path, args.output_path)
           out == get_output_path(args.input_path, sfx)
       IN \E outcome \in PipelineOutcomes(fs, args.input_path, out) :
          LET r == process_pdf(fs, args.input_path, sfx, args.force, outcome)
          IN /\ fs' = r.fs
             /\ written' = written \cup r.wrote
             /\ log' = Append(log, LogEntry(fs, args.input_path, sfx, r))
             /\ results' = <<r.result>>
             /\ pc' = IF NeedsRename(args.input_path, args.output_path, r.result)
                      THEN "rename" ELSE "return"
    /\ UNCHANGED <<callVars, i, processed, skipped, failed, cbLog, ret>>

OcrFileRename ==
    /\ pc = "rename"
    /\ LET sfx == ocr_suffix(args.input_path, args.output_path)
           actual_output == get_output_path(args.input_path, sfx)
       IN \E outcome \in RenameOutcomes(fs, args.output_path) :
          IF outcome = "ok"
          THEN /\ fs' = Rename(fs, actual_output, args.output_path)
               /\ written' = written \cup {args.output_path}
               /\ results' = <<ProcessResult(results[1].input_path,
                                             args.output_path, TRUE, FALSE, None)>>
               /\ pc' = "return"
          ELSE /\ pc' = "raised"
               /\ UNCHANGED <<fs, written, results>>
    /\ UNCHANGED <<callVars, log, i, processed, skipped, failed, cbLog, ret>>

OcrFileReturn ==
    /\ pc = "return"
    /\ ret' = results[1]
    /\ pc' = "returned"
    /\ UNCHANGED <<fsVars, loopVars, callVars, cbLog>>

OutputDirs == {<<"d1">>, <<"d2">>}
OutputStems == UNION {[1..n -> OutputChars] : n \in 1..(MaxStem + MaxSuffix)}
OcrOutputs == {MkPath(d, s, ".pdf") : d \in OutputDirs, s \in OutputStems}

InitFs(paths, tags) ==
    \E present \in SUBSET paths : fs \in [present -> tags]

InitOcrFile ==
    /\ args \in [input_path : BatchInputs,
                 output_path : OcrOutputs \cup {NoPath},
                 force : BOOLEAN]
    /\ InitFs({args.input_path, args.output_path,
               get_output_path(args.input_path,
                               ocr_suffix(args.input_path, args.output_path))}
              \ {NoPath}, {"scan", "text"})
    /\ fs0 = fs
    /\ written = {} /\ log = <<>>
    /\ pc = "ocr_file" /\ i = 0 /\ results = <<>>
    /\ processed = 0 /\ skipped = 0 /\ failed = 0
    /\ pdf_list = <<>> /\ progress_callback = "None"
    /\ cbLog = <<>> /\ run = 1 /\ prev = NoRet /\ ret = NoRet

NextOcrFile ==
    \/ OcrFileProcess
    \/ OcrFileRename
    \/ OcrFileReturn

SpecOcrFile == InitOcrFile /\ [][NextOcrFile]_vars

(* ------------------------------ classifier ---------------------------- *)
(* A document is its sequence of per-page character counts and a fault:   *)
(* "open" (fitz.open raises), "read" (get_text raises), "none".  A ratio  *)
(* is a dyadic fraction num/den, which a float represents exactly; the    *)
(* comparison of empty_pages / page_count with it is then the comparison  *)
(* of the exact quotients.                                                *)
MaxPages == 3
MaxChars == 2
RatioBits == 2

RECURSIVE Pow2(_)
Pow2(n) == IF n = 0 THEN 1 ELSE 2 * Pow2(n - 1)

Ratios == {[num |-> k, den |-> Pow2(RatioBits)] : k \in 0..Pow2(RatioBits)}

IsEmptyPage_inclusive(char_count, empty_page_threshold) ==
    char_count <= empty_page_threshold

IsEmptyPage(char_count, empty_page_threshold) ==
    char_count < empty_page_threshold

RECURSIVE CountEmpty(_, _)
CountEmpty(pages, empty_page_threshold) ==
    IF pages = <<>> THEN 0
    ELSE (IF IsEmptyPage(Head(pages), empty_page_threshold) THEN 1 ELSE 0)
         + CountEmpty(Tail(pages), empty_page_threshold)

RatioReached(empty_pages, page_count, ratio) ==
    empty_pages * ratio.den >= ratio.num * page_count

needs_ocr(doc, empty_page_threshold, empty_page_ratio) ==
    IF doc.fault = "open" THEN FALSE
    ELSE IF Len(doc.pages) = 0 THEN FALSE
    ELSE IF doc.fault = "read" THEN FALSE
    ELSE RatioReached(CountEmpty(doc.pages, empty_page_threshold),
                      Len(doc.pages), empty_page_ratio)

Classify ==
    /\ pc = "needs_ocr"
    /\ ret' = needs_ocr(args.doc, args.threshold, args.ratio)
    /\ pc' = "returned"
    /\ UNCHANGED <<fsVars, loopVars, callVars, cbLog>>

Documents ==
    [pages : UNION {[1..n -> 0..MaxChars] : n \in 0..MaxPages},
     fault : {"none", "open", "read"}]

InitNeedsOcr ==
    /\ args \in [doc : Documents, threshold : 0..(MaxChars + 1), ratio : Ratios]
    /\ fs = << >> /\ fs0 = fs
    /\ written = {} /\ log = <<>>
    /\ pc = "needs_ocr" /\ i = 0 /\ results = <<>>
    /\ processed = 0 /\ skipped = 0 /\ failed = 0
    /\ pdf_list = <<>> /\ progress_callback = "None"
    /\ cbLog = <<>> /\ run = 1 /\ prev = NoRet /\ ret = NoRet

NextNeedsOcr == Classify

SpecNeedsOcr == InitNeedsOcr /\ [][NextNeedsOcr]_vars

(* ---------------------------- directory scanner ----------------------- *)
(* A path with an empty stem denotes the directory named by its parent.   *)
MainDirs == {<<"d1">>, <<"d1", "sub">>}
Exts == {".pdf", ".PDF", ".txt"}
Lower(ext) == IF ext = ".PDF" THEN ".pdf" ELSE ext
MatchesPdfGlob(ext) == ext \in {".pdf", ".PDF"}

PathExists(fsys, p) ==
    IF p.stem = <<>> THEN p.parent \in MainDirs ELSE Exists(fsys, p)
IsFile(fsys, p) ==
    p.stem # <<>> /\ Exists(fsys, p) /\ fsys[p] \notin {"dir", "special"}
IsDir(fsys, p) ==
    IF p.stem = <<>> THEN p.parent \in MainDirs
    ELSE Exists(fsys, p) /\ fsys[p] = "dir"

IsPrefix(d, parent) ==
    Len(d) <= Len(parent) /\ SubSeq(parent, 1, Len(d)) = d

(* rglob("*.[pP][dD][fF]") filtered by is_file; a directory that carries  *)
(* a file-like name is empty.                                             *)
scan_directory(fsys, directory) ==
    IF directory.stem # <<>> THEN {}
    ELSE {p \in DOMAIN fsys : /\ IsPrefix(directory.parent, p.parent)
                              /\ MatchesPdfGlob(p.ext)
                              /\ IsFile(fsys, p)}

(* The walk yields the files in an order the filesystem chooses.          *)
Orderings(S) == {f \in [1..Cardinality(S) -> S] : Range(f) = S}

(* ------------------------- command-line entry point ------------------- *)
DefaultThreshold == 10
DefaultRatio == [num |-> 1, den |-> 2]

DocOf(tag) ==
    CASE tag = "scan" -> [pages |-> <<0, 0>>, fault |-> "none"]
      [] tag = "text" -> [pages |-> <<40, 25>>, fault |-> "none"]
      [] tag = "ocr" -> [pages |-> <<40, 25>>, fault |-> "none"]
      [] OTHER -> [pages |-> <<>>, fault |-> "open"]

FileNeedsOcr(fsys, p, ratio) ==
    needs_ocr(IF Exists(fsys, p) THEN DocOf(fsys[p]) ELSE DocOf("bad"),
              DefaultThreshold, ratio)

MainStage(fsys, parsed) ==
    IF ~PathExists(fsys, parsed.path) THEN "not_found"
    ELSE IF IsFile(fsys, parsed.path) THEN "single_file"
    ELSE IF ~IsDir(fsys, parsed.path) THEN "not_a_directory"
    ELSE "directory"

(* process_single_file up to the call of process_pdf: the exit code it    *)
(* returns before processing, or "process".                               *)
SingleFileStage(parsed) ==
    IF Lower(parsed.path.ext) # ".pdf" THEN "not_a_pdf"
    ELSE IF parsed.dry_run THEN "dry_run"
    ELSE "process"

SingleFileExit(result) ==
    IF result.skipped THEN 0 ELSE IF result.success THEN 0 ELSE 1

(* The directory branch of main after the scan and the analysis.          *)
DirectoryStage_no_dry_run(all_pdfs, needs_ocr_list, parsed) ==
    IF all_pdfs = <<>> THEN "no_pdfs"
    ELSE IF needs_ocr_list = <<>> THEN "nothing_to_do"
    ELSE "process"

DirectoryStage(all_pdfs, needs_ocr_list, parsed) ==
    IF all_pdfs = <<>> THEN "no_pdfs"
    ELSE IF needs_ocr_list = <<>> THEN "nothing_to_do"
    ELSE IF parsed.dry_run THEN "dry_run"
    ELSE "process"

mainLocals == <<i, results, processed, skipped, failed, cbLog, run, prev>>

MainInvalidTarget ==
    /\ pc = "main"
    /\ MainStage(fs, args) \in {"not_found", "not_a_directory"}
    /\ ret' = 1
    /\ pc' = "exit"
    /\ UNCHANGED <<fsVars, fs0, args, pdf_list, progress_callback, mainLocals>>

MainSingleFile ==
    /\ pc = "main"
    /\ MainStage(fs, args) = "single_file"
    /\ IF SingleFileStage(args) = "process"
       THEN \E outcome \in PipelineOutcomes(fs, args.path,
                               get_output_path(args.path, args.suffix)) :
            LET r == process_pdf(fs, args.path, args.suffix, args.force, outcome)
            IN /\ fs' = r.fs
               /\ written' = written \cup r.wrote
               /\ log' = Append(log, LogEntry(fs, args.path, args.suffix, r))
               /\ ret' = SingleFileExit(r.result)
       ELSE /\ ret' = (IF SingleFileStage(args) = "not_a_pdf" THEN 1 ELSE 0)
            /\ UNCHANGED fsVars
    /\ pc' = "exit"
    /\ UNCHANGED <<fs0, args, pdf_list, progress_callback, mainLocals>>

MainDirectory ==
    /\ pc = "main"
    /\ MainStage(fs, args) = "directory"
    /\ \E all_pdfs \in Orderings(scan_directory(fs, args.path)) :
       LET needs_ocr_list ==
              SelectSeq(all_pdfs, LAMBDA p : FileNeedsOcr(fs, p, args.empty_ratio))
       IN IF DirectoryStage(all_pdfs, needs_ocr_list, args) = "process"
          THEN /\ pdf_list' = needs_ocr_list
               /\ progress_callback' = "pbar"
               /\ pc' = "loop"
               /\ ret' = ret
          ELSE /\ ret' = 0
               /\ pc' = "exit"
               /\ UNCHANGED <<pdf_list, progress_callback>>
    /\ UNCHANGED <<fsVars, fs0, args, mainLocals>>

MainSummary ==
    /\ pc = "returned"
    /\ ret' = (IF ret.failed = 0 THEN 0 ELSE 1)
    /\ pc' = "exit"
    /\ UNCHANGED <<fsVars, loopVars, callVars, cbLog>>

MaxScan == 2
MainStems == {<<"a">>, <<"a", "b">>}
MainSuffixes == {<<"b">>, DefaultSuffix}
MainFiles == {MkPath(d, s, e) : d \in MainDirs, s \in MainStems, e \in Exts}
MainTargets ==
    {MkPath(d, <<>>, "") : d \in MainDirs \cup {<<"missing">>}} \cup MainFiles

InitMain ==
    /\ args \in [path : MainTargets, suffix : MainSuffixes, force : BOOLEAN,
                 dry_run : BOOLEAN, empty_ratio : {DefaultRatio}]
    /\ \E present \in SUBSET MainFiles :
          /\ Cardinality(present) <= MaxScan
          /\ fs \in [present -> {"scan", "text", "dir", "special"}]
    /\ fs0 = fs
    /\ written = {} /\ log = <<>>
    /\ pc = "main" /\ i = 0 /\ results = <<>>
    /\ processed = 0 /\ skipped = 0 /\ failed = 0
    /\ pdf_list = <<>> /\ progress_callback = "None"
    /\ cbLog = <<>> /\ run = 1 /\ prev = NoRet /\ ret = NoRet

NextMain ==
    \/ MainInvalidTarget
    \/ MainSingleFile
    \/ MainDirectory
    \/ CallbackReturns
    \/ ProcessFile
    \/ BatchReturn
    \/ MainSummary

SpecMain == InitMain /\ [][NextMain]_vars

(* ======================= properties of process_batch ================== *)
(* The history entries of the run in progress, one per call of            *)
(* process_pdf, in call order.                                            *)
RunLog == SelectSeq(log, LAMBDA e : e.run = run)

Failure(input_path) ==
    ProcessResult(input_path, NoPath, FALSE, FALSE, "OcrPipelineError")

(* C1: the three counters always add up to the number of results, after   *)
(* every loop iteration, and the BatchResult returned has one result per  *)
(* element of the input list.                                             *)
C1_CountersMatchResults ==
    /\ processed + skipped + failed = Len(results)
    /\ Len(results) = i
    /\ pc = "returned" =>
          /\ ret.processed + ret.skipped + ret.failed = Len(ret.results)
          /\ Len(ret.results) = Len(pdf_list)

C1_Witness ==
    /\ pc = "returned" /\ Len(pdf_list) = MaxFiles
    /\ ret.skipped >= 1 /\ ret.failed >= 1

(* C2: a file whose pipeline call raised has the failure result; the      *)
(* batch is aborted only by the callback, never by the failure; and in a  *)
(* batch that returned every position after the failure has been handled  *)
(* by process_pdf exactly once.                                           *)
C2_FailureIsContained ==
    /\ Len(RunLog) = Len(results)
    /\ \A k \in 1..Len(results) :
          RunLog[k].outcome = "raise" =>
             /\ RunLog[k].pos = k
             /\ results[k] = Failure(pdf_list[k])
             /\ pc = "raised" =>
                   (progress_callback = "cb" /\ Len(cbLog) = Len(results) + 1)
             /\ pc = "returned" =>
                   \A m \in (k + 1)..Len(pdf_list) :
                      /\ Cardinality({j \in 1..Len(RunLog) : RunLog[j].pos = m}) = 1
                      /\ results[m].input_path = pdf_list[m]

C2_Witness ==
    /\ pc = "returned" /\ Len(pdf_list) = MaxFiles
    /\ RunLog[1].outcome = "raise"
    /\ results[MaxFiles].success /\ ~results[MaxFiles].skipped

(* C3: a second run with force = false after a first run without failure  *)
(* skips every file, processes none and never invokes the pipeline.       *)
C3_SecondRunSkipsAll ==
    (pc = "returned" /\ run = 2 /\ ~args.force /\ prev.failed = 0) =>
       /\ ret.skipped = Len(pdf_list)
       /\ ret.processed = 0
       /\ \A k \in 1..Len(RunLog) : ~RunLog[k].invoked

C3_Witness ==
    /\ pc = "returned" /\ run = 2 /\ ~args.force
    /\ prev.failed = 0 /\ prev.processed = MaxFiles
    /\ ret.skipped = MaxFiles

(* C4: no file of the input list is ever written to, by its own           *)
(* processing or by the processing of another file of the list.           *)
C4_InputsNeverWritten ==
    written \cap Range(pdf_list) = {}

(* C5: the pipeline is invoked iff force is set or the output does not    *)
(* exist; an existing output without force gives the skip result; with    *)
(* force an existing output is reprocessed at the computed output path.   *)
C5_PipelineIffForceOrMissing ==
    \A k \in 1..Len(results) :
       LET e == RunLog[k]
           out == get_output_path(pdf_list[k], args.suffix)
       IN /\ e.invoked <=> (args.force \/ ~e.existed)
          /\ (e.existed /\ ~args.force) =>
                results[k] = ProcessResult(pdf_list[k], out, TRUE, TRUE, None)
          /\ (e.existed /\ args.force) => (e.invoked /\ e.target = out)
          /\ e.invoked => e.target = out

C5_Witness ==
    /\ Len(results) = MaxFiles /\ args.force
    /\ RunLog[1].existed /\ RunLog[1].invoked
    /\ RunLog[MaxFiles].existed

(* C7: the callback is invoked once per file with (index, total, path),   *)
(* in order, before the file is processed and after the previous one is   *)
(* finished; once it raises nothing more is processed and nothing is      *)
(* returned.                                                              *)
C7_CallbackBeforeEachFile ==
    progress_callback # "None" =>
       /\ \A k \in 1..Len(cbLog) : cbLog[k] = <<k, Len(pdf_list), pdf_list[k]>>
       /\ pc = "loop" => Len(cbLog) = Len(results)
       /\ pc = "process" => Len(cbLog) = Len(results) + 1
       /\ pc = "raised" => (Len(cbLog) = Len(results) + 1 /\ ret = NoRet)
       /\ pc = "returned" => Len(cbLog) = Len(pdf_list)

C7_Witness ==
    /\ progress_callback = "cb" /\ pc = "raised"
    /\ Len(cbLog) = MaxFiles /\ Len(results) = MaxFiles - 1

(* C10: a skipped result is a success without error; the output path is   *)
(* present exactly on success; the error is present exactly on failure.   *)
WellFormed(r) ==
    /\ r.skipped => (r.success /\ r.error = None)
    /\ (r.output_path # NoPath) <=> r.success
    /\ (r.error # None) <=> ~r.success

C10_ResultsWellFormed ==
    /\ \A k \in 1..Len(results) : WellFormed(results[k])
    /\ pc = "returned" => \A k \in 1..Len(ret.results) : WellFormed(ret.results[k])

C10_Witness ==
    /\ pc = "returned" /\ Len(ret.results) = MaxFiles
    /\ ret.results[1].skipped /\ ~ret.results[MaxFiles].success


(* ========================= properties of ocr_file ===================== *)
(* C6: with force = false a file that exists at the explicit output path  *)
(* is still there and has not been written to when ocr_file ends.         *)
C6_ExistingOutputKept ==
    (/\ pc \in {"returned", "raised"}
     /\ args.output_path # NoPath /\ ~args.force
     /\ Exists(fs0, args.output_path)) =>
       /\ Exists(fs, args.output_path)
       /\ fs[args.output_path] = fs0[args.output_path]
       /\ args.output_path \notin written

(* ========================= properties of needs_ocr ==================== *)
EmptyPages(doc, threshold) ==
    {k \in 1..Len(doc.pages) : doc.pages[k] < threshold}

C9_DryRunTouchesNothing ==
    args.dry_run =>
       /\ log = <<>> /\ written = {} /\ fs = fs0
       /\ pc \in {"main", "exit"}
       /\ (pc = "exit" /\ IsDir(fs0, args.path)) => ret = 0

C9_Witness ==
    /\ args.dry_run /\ args.force /\ pc = "exit"
    /\ IsDir(fs0, args.path)
    /\ \E p \in scan_directory(fs0, args.path) :
          /\ FileNeedsOcr(fs0, p, args.empty_ratio)
          /\ Exists(fs0, get_output_path(p, args.suffix))

====
